---------------------------- MODULE Spec2Model ----------------------------
(***************************************************************************)
(* Finanzen-Macros: the simulation frontend (simulation-view.html,         *)
(* CLIArgument.js) and the plotting notebooks (finance_plotter.ipynb).     *)
(*                                                                         *)
(* Three specifications:                                                   *)
(*   Spec     the simulation view: concurrent runs of simulate() and       *)
(*            getResultsForIdentifier() over the shared DOM, one action    *)
(*            per synchronous block between two awaits;                    *)
(*   SpecArg  one CLIArgument object under fromJSON and setValue;          *)
(*   SpecNb   one top-to-bottom run of a notebook, statement by statement. *)
(***************************************************************************)
EXTENDS Integers, Sequences, FiniteSets, TLC

VARIABLES status, simId, linePlot, tablePlot, alerts, tasks,
          arg, lastSet,
          nb, cell, stmt, ns, run

viewVars == <<status, simId, linePlot, tablePlot, alerts, tasks>>
argVars  == <<arg, lastSet>>
nbVars   == <<nb, cell, stmt, ns, run>>
vars     == <<status, simId, linePlot, tablePlot, alerts, tasks,
              arg, lastSet, nb, cell, stmt, ns, run>>

(***************************************************************************)
(* Bounds                                                                  *)
(***************************************************************************)
\* number of invocations (button clicks) of simulate / getResultsForIdentifier
MaxTasks == 2

Tasks == 1..MaxTasks

\* identifiers the simulate endpoint may hand out
Ids == {"id1", "id2"}
\* bodies of not-ok responses
Texts == {"bad request"}
\* the args handed to simulate() by the configuration form
ArgLists == {"[]"}
\* data of an ok results response: parsed.data.line and parsed.data.table
Payloads == {[line |-> "L1", table |-> "T1"], [line |-> "L2", table |-> "T2"]}

(***************************************************************************)
(* HTTP responses as the frontend sees them.  st is "none" while nothing   *)
(* was received, "ok"/"notok" for response.ok, "rejected" when fetch()     *)
(* itself rejects (network failure).  hasData is FALSE for an ok results   *)
(* body without a data member.                                             *)
(***************************************************************************)
NoResponse ==
    [st |-> "none", identifier |-> "undefined", text |-> "",
     hasData |-> FALSE, line |-> "", table |-> ""]

SimulateResponses ==
    {[NoResponse EXCEPT !.st = "ok", !.identifier = i] : i \in Ids}
    \cup {[NoResponse EXCEPT !.st = "notok", !.text = x] : x \in Texts}
    \cup {[NoResponse EXCEPT !.st = "rejected"]}

ResultsResponses ==
    {[NoResponse EXCEPT !.st = "ok", !.hasData = TRUE,
                        !.line = p.line, !.table = p.table] : p \in Payloads}
    \cup {[NoResponse EXCEPT !.st = "ok"]}
    \cup {[NoResponse EXCEPT !.st = "notok", !.text = x] : x \in Texts}
    \cup {[NoResponse EXCEPT !.st = "rejected"]}

(***************************************************************************)
(* One invocation.  pc is the await the invocation is suspended at.        *)
(* History fields: trace (the values this invocation wrote to              *)
(* simulation-status), resCount (results requests it issued), drew (it     *)
(* called Plotly.newPlot), alerted (the alert texts it showed), alone (no  *)
(* other invocation ran a step since this one started).                    *)
(***************************************************************************)
IdleTask ==
    [kind |-> "none", pc |-> "idle", args |-> "", simResp |-> NoResponse,
     identifier |-> "undefined", resResp |-> NoResponse, resCount |-> 0,
     trace |-> <<>>, drew |-> FALSE, alerted |-> <<>>, alone |-> FALSE]

\* the step of invocation t: every other invocation has been interleaved with
Step(t, rec) ==
    tasks' = [u \in Tasks |->
                IF u = t THEN rec ELSE [tasks[u] EXCEPT !.alone = FALSE]]

\* invocations are numbered in the order of the clicks that start them
CanStart(t) ==
    /\ tasks[t].pc = "idle"
    /\ \A u \in Tasks : u < t => tasks[u].pc # "idle"

InitView ==
    /\ status = "Ready"
    /\ simId = "N/A"
    /\ linePlot = ""
    /\ tablePlot = ""
    /\ alerts = <<>>
    /\ tasks = [t \in Tasks |-> IdleTask]

(***************************************************************************)
(* getResults(identifier), up to its first await: the status is set and    *)
(* the results request is sent.                                            *)
(***************************************************************************)
GetResultsEnter(rec, identifier) ==
    [rec EXCEPT !.pc = "awaitResults",
                !.identifier = identifier,
                !.resCount = @ + 1,
                !.trace = Append(@, "Retrieving results")]

(***************************************************************************)
(* simulate(args)                                                          *)
(***************************************************************************)
\* lines 5-12: status, identifier, the simulate request
SimulateStart(t) ==
    /\ CanStart(t)
    /\ \E a \in ArgLists :
         Step(t, [IdleTask EXCEPT !.kind = "simulate", !.pc = "awaitSimulate",
                                  !.args = a, !.trace = <<"Simulating">>,
                                  !.alone = TRUE])
    /\ status' = "Simulating"
    /\ simId' = "pending"
    /\ UNCHANGED <<linePlot, tablePlot, alerts>>

\* SimulateFetched without the test of response.ok (line 13)
SimulateFetched_Unchecked(t) ==
    /\ tasks[t].kind = "simulate"
    /\ tasks[t].pc = "awaitSimulate"
    /\ \E r \in SimulateResponses :
         Step(t, [tasks[t] EXCEPT
                    !.simResp = r,
                    !.pc = IF r.st = "rejected" THEN "threw"
                                                ELSE "awaitSimulateJson"])
    /\ UNCHANGED <<status, simId, linePlot, tablePlot, alerts>>

\* line 12 resumes: fetch rejects, or the response is tested (lines 13, 14, 18)
SimulateFetched(t) ==
    /\ tasks[t].kind = "simulate"
    /\ tasks[t].pc = "awaitSimulate"
    /\ \E r \in SimulateResponses :
         Step(t, [tasks[t] EXCEPT
                    !.simResp = r,
                    !.pc = CASE r.st = "rejected" -> "threw"
                             [] r.st = "notok"    -> "awaitSimulateText"
                             [] OTHER             -> "awaitSimulateJson"])
    /\ UNCHANGED <<status, simId, linePlot, tablePlot, alerts>>

\* SimulateNotOk without the return of line 16: falls through to lines 18-20
SimulateNotOk_FallThrough(t) ==
    /\ tasks[t].kind = "simulate"
    /\ tasks[t].pc = "awaitSimulateText"
    /\ LET msg == "Error: " \o tasks[t].simResp.text IN
         /\ alerts' = Append(alerts, msg)
         /\ Step(t, GetResultsEnter([tasks[t] EXCEPT !.alerted = Append(@, msg)],
                                    tasks[t].simResp.identifier))
    /\ simId' = tasks[t].simResp.identifier
    /\ status' = "Retrieving results"
    /\ UNCHANGED <<linePlot, tablePlot>>

\* lines 14-16: alert and return
SimulateNotOk(t) ==
    /\ tasks[t].kind = "simulate"
    /\ tasks[t].pc = "awaitSimulateText"
    /\ LET msg == "Error: " \o tasks[t].simResp.text IN
         /\ alerts' = Append(alerts, msg)
         /\ Step(t, [tasks[t] EXCEPT !.pc = "returned",
                                     !.alerted = Append(@, msg)])
    /\ UNCHANGED <<status, simId, linePlot, tablePlot>>

\* lines 18-20 and 24-29: the identifier is shown, getResults is entered
SimulateOk(t) ==
    /\ tasks[t].kind = "simulate"
    /\ tasks[t].pc = "awaitSimulateJson"
    /\ simId' = tasks[t].simResp.identifier
    /\ status' = "Retrieving results"
    /\ Step(t, GetResultsEnter(tasks[t], tasks[t].simResp.identifier))
    /\ UNCHANGED <<linePlot, tablePlot, alerts>>

(***************************************************************************)
(* getResultsForIdentifier()                                               *)
(***************************************************************************)
\* lines 43-46: prompt() was cancelled
PromptCancelled(t) ==
    /\ CanStart(t)
    /\ Step(t, [IdleTask EXCEPT !.kind = "manual", !.pc = "returned",
                                !.alone = TRUE])
    /\ UNCHANGED <<status, simId, linePlot, tablePlot, alerts>>

\* lines 43-47 and 24-29: prompt() gave an identifier, getResults is entered
PromptEntered(t) ==
    /\ CanStart(t)
    /\ \E i \in Ids :
         Step(t, GetResultsEnter([IdleTask EXCEPT !.kind = "manual",
                                                  !.alone = TRUE], i))
    /\ status' = "Retrieving results"
    /\ UNCHANGED <<simId, linePlot, tablePlot, alerts>>

(***************************************************************************)
(* getResults(identifier), after its first await                           *)
(***************************************************************************)
\* line 29 resumes: fetch rejects, or the response is tested (lines 30, 31, 34)
ResultsFetched(t) ==
    /\ tasks[t].pc = "awaitResults"
    /\ \E r \in ResultsResponses :
         Step(t, [tasks[t] EXCEPT
                    !.resResp = r,
                    !.pc = CASE r.st = "rejected" -> "threw"
                             [] r.st = "notok"    -> "awaitResultsText"
                             [] OTHER             -> "awaitResultsJson"])
    /\ UNCHANGED <<status, simId, linePlot, tablePlot, alerts>>

\* ResultsNotOk that polls: a not-ok response is followed by one more request
ResultsNotOk_Polling(t) ==
    /\ tasks[t].pc = "awaitResultsText"
    /\ IF tasks[t].resCount < 2
         THEN /\ Step(t, GetResultsEnter(tasks[t], tasks[t].identifier))
              /\ status' = "Retrieving results"
              /\ UNCHANGED alerts
         ELSE LET msg == "Error: " \o tasks[t].resResp.text IN
                /\ alerts' = Append(alerts, msg)
                /\ Step(t, [tasks[t] EXCEPT !.pc = "returned",
                                            !.alerted = Append(@, msg)])
                /\ UNCHANGED status
    /\ UNCHANGED <<simId, linePlot, tablePlot>>

\* lines 31-32: alert and return (simulate and getResultsForIdentifier
\* return right after)
ResultsNotOk(t) ==
    /\ tasks[t].pc = "awaitResultsText"
    /\ LET msg == "Error: " \o tasks[t].resResp.text IN
         /\ alerts' = Append(alerts, msg)
         /\ Step(t, [tasks[t] EXCEPT !.pc = "returned",
                                     !.alerted = Append(@, msg)])
    /\ UNCHANGED <<status, simId, linePlot, tablePlot>>

\* ResultsOk with line 39 moved before the plots: Done although line 37 throws
ResultsOk_DoneFirst(t) ==
    /\ tasks[t].pc = "awaitResultsJson"
    /\ status' = "Done"
    /\ IF tasks[t].resResp.hasData
         THEN /\ linePlot' = tasks[t].resResp.line
              /\ tablePlot' = tasks[t].resResp.table
              /\ Step(t, [tasks[t] EXCEPT !.pc = "returned", !.drew = TRUE,
                                          !.trace = Append(@, "Done")])
         ELSE /\ Step(t, [tasks[t] EXCEPT !.pc = "threw",
                                          !.trace = Append(@, "Done")])
              /\ UNCHANGED <<linePlot, tablePlot>>
    /\ UNCHANGED <<simId, alerts>>

\* lines 34-39: both plots are drawn, the status is Done; parsed.data.line
\* throws a TypeError when the body has no data member
ResultsOk(t) ==
    /\ tasks[t].pc = "awaitResultsJson"
    /\ IF tasks[t].resResp.hasData
         THEN /\ linePlot' = tasks[t].resResp.line
              /\ tablePlot' = tasks[t].resResp.table
              /\ status' = "Done"
              /\ Step(t, [tasks[t] EXCEPT !.pc = "returned", !.drew = TRUE,
                                          !.trace = Append(@, "Done")])
         ELSE /\ Step(t, [tasks[t] EXCEPT !.pc = "threw"])
              /\ UNCHANGED <<status, linePlot, tablePlot>>
    /\ UNCHANGED <<simId, alerts>>

NextView ==
    \E t \in Tasks :
        \/ SimulateStart(t)
        \/ SimulateFetched(t)
        \/ SimulateNotOk(t)
        \/ SimulateOk(t)
        \/ PromptCancelled(t)
        \/ PromptEntered(t)
        \/ ResultsFetched(t)
        \/ ResultsNotOk(t)
        \/ ResultsOk(t)

InitArgIdle == arg = <<>> /\ lastSet = <<>>
InitNbIdle == nb = 0 /\ cell = 0 /\ stmt = 0 /\ ns = {} /\ run = "idle"

Init == InitView /\ InitArgIdle /\ InitNbIdle

Next == NextView /\ UNCHANGED argVars /\ UNCHANGED nbVars

Spec == Init /\ [][Next]_vars

(***************************************************************************)
(* CLIArgument.js                                                          *)
(*                                                                         *)
(* A JavaScript value is a pair <<typeof-tag, printed value>>, so that     *)
(* undefined, null, false and the empty string are four different values.  *)
(***************************************************************************)
JSUndefined == <<"undefined", "">>
JSNull      == <<"null", "">>

\* what prompt(), input.checked, input.value and a careless caller can pass
JSValues ==
    {JSUndefined, JSNull, <<"boolean", "false">>, <<"boolean", "true">>,
     <<"string", "">>, <<"string", "5">>}

\* the entries of args_json / additional_args
JSONArgs ==
    [key : {"years", "rate"}, display_name : {"Years", "Rate"},
     type : {"int", "bool"},
     default_value : {JSNull, <<"string", "1">>, <<"boolean", "false">>}]

\* constructor, lines 8-14
CLIArgument(key, display_name, type, value, default_value) ==
    [key |-> key, display_name |-> display_name, type |-> type,
     value |-> value, default_value |-> default_value]

\* static fromJSON, lines 23-25
fromJSON(a) ==
    CLIArgument(a.key, a.display_name, a.type, JSUndefined, a.default_value)

\* setValue, lines 16-21: the recursive call returns into the assignment of
\* line 20, which runs with the caller's own value
RECURSIVE setValue(_, _)
setValue(this, value) ==
    LET afterIf == IF value = JSUndefined THEN setValue(this, JSNull)
                                          ELSE this
    IN  [afterIf EXCEPT !.value = value]

InitArg ==
    /\ \E a \in JSONArgs : arg = fromJSON(a)
    /\ lastSet = <<>>

\* a fresh object replaces the one at hand
FromJSON ==
    /\ \E a \in JSONArgs : arg' = fromJSON(a)
    /\ lastSet' = <<>>

\* arg.setValue(v); lastSet remembers the v of the last call
SetValue ==
    \E v \in JSValues :
        /\ arg' = setValue(arg, v)
        /\ lastSet' = v

NextArg == (FromJSON \/ SetValue) /\ UNCHANGED viewVars /\ UNCHANGED nbVars

InitArgSpec == InitView /\ InitArg /\ InitNbIdle

SpecArg == InitArgSpec /\ [][NextArg]_vars

(***************************************************************************)
(* finance_plotter.ipynb                                                   *)
(*                                                                         *)
(* A statement is what it reads from and binds in the kernel's global      *)
(* namespace, the notebook's own functions it calls (their bodies look     *)
(* their free names up when they run, not when they are defined), and      *)
(* whether it can raise an exception other than NameError (I/O, imports,   *)
(* library calls, subscripts).  A cell is the sequence of its statements.  *)
(***************************************************************************)
St(reads, defs, calls, mayFail) ==
    [reads |-> reads, defs |-> defs, calls |-> calls, mayFail |-> mayFail]

\* the builtins the cells use; always bound
Builtins == {"range", "len", "round", "sorted", "list", "dict", "float", "str"}

\* the free names of the bodies of the functions the second notebook defines
\* (lines 351-354, 365-371, 488-490); an imported function resolves its names
\* in its own module
FnBody(f) ==
    CASE f = "get_avg_return_scenario" ->
           [reads |-> {"range", "len"}, calls |-> {}]
      [] f = "load_data" ->
           [reads |-> {"pd", "get_avg_return_scenario", "FIXED_SCENARIO_RETURN"},
            calls |-> {"get_avg_return_scenario"}]
      [] f = "calculate_share_of_values_being_within_stddev" ->
           [reads |-> {"len", "delta_depot_value", "median", "stddev"},
            calls |-> {}]
      [] OTHER -> [reads |-> {}, calls |-> {}]

\* the names looked up while the functions fs run
RECURSIVE CallReads(_)
CallReads(fs) ==
    IF fs = {} THEN {}
    ELSE LET f == CHOOSE g \in fs : TRUE IN
           FnBody(f).reads \cup CallReads(FnBody(f).calls)
                           \cup CallReads(fs \ {f})

\* every name statement s looks up
Needed(s) == s.reads \cup CallReads(s.calls)

\* first notebook (lines 1-310), code cells in document order
\* lines 9-10
Nb1Cell_01 ==
    <<St({}, {}, {}, TRUE),
      St({}, {}, {}, TRUE)>>
\* lines 19-20
Nb1Cell_02 ==
    <<St({}, {"get_depot_history", "get_net_worth_history"}, {}, TRUE),
      St({}, {"graphs"}, {}, TRUE)>>
\* line 36
Nb1Cell_03 ==
    <<St({}, {"export_dir"}, {}, FALSE)>>
\* lines 45-46
Nb1Cell_04 ==
    <<St({"get_net_worth_history", "export_dir"}, {"net_worth_history", "net_worth_mvg_avg", "avg_return"}, {}, TRUE),
      St({"net_worth_history"}, {}, {}, TRUE)>>
\* line 55
Nb1Cell_05 ==
    <<St({"get_depot_history", "export_dir"}, {"proposition_history", "quote_history", "value_history"}, {}, TRUE)>>
\* line 71
Nb1Cell_06 ==
    <<St({"graphs", "net_worth_history"}, {}, {}, TRUE)>>
\* lines 80-115
Nb1Cell_07 ==
    <<St({}, {"go"}, {}, TRUE),
      St({}, {"current_value"}, {}, FALSE),
      St({}, {"reference_value"}, {}, FALSE),
      St({"current_value", "reference_value"}, {"delta_value"}, {}, FALSE),
      St({"go", "dict", "current_value", "reference_value"}, {"fig"}, {}, TRUE),
      St({"fig"}, {}, {}, TRUE),
      St({"fig"}, {}, {}, TRUE)>>
\* lines 124-133
Nb1Cell_08 ==
    <<St({"go", "dict", "list", "net_worth_history"}, {"fig"}, {}, TRUE),
      St({"fig"}, {}, {}, TRUE)>>
\* line 151
Nb1Cell_09 ==
    <<St({"graphs", "net_worth_history", "avg_return"}, {}, {}, TRUE)>>
\* line 169
Nb1Cell_10 ==
    <<St({"graphs", "net_worth_history"}, {}, {}, TRUE)>>
\* line 185
Nb1Cell_11 ==
    <<St({"graphs", "net_worth_history"}, {}, {}, TRUE)>>
\* line 201
Nb1Cell_12 ==
    <<St({"graphs", "net_worth_history"}, {}, {}, TRUE)>>
\* line 217
Nb1Cell_13 ==
    <<St({"graphs", "net_worth_history"}, {}, {}, TRUE)>>
\* line 233
Nb1Cell_14 ==
    <<St({"graphs", "proposition_history"}, {}, {}, TRUE)>>
\* line 242
Nb1Cell_15 ==
    <<St({"graphs", "value_history"}, {}, {}, TRUE)>>
\* line 251
Nb1Cell_16 ==
    <<St({"graphs", "quote_history"}, {}, {}, TRUE)>>
\* line 260
Nb1Cell_17 ==
    <<St({"graphs", "proposition_history"}, {}, {}, TRUE)>>
\* line 269
Nb1Cell_18 ==
    <<St({"graphs", "value_history"}, {}, {}, TRUE)>>
\* line 278
Nb1Cell_19 ==
    <<St({"graphs", "value_history"}, {}, {}, TRUE)>>
\* line 286, empty
Nb1Cell_20 ==
    <<>>

\* Notebook1 with the plotly import cell (7th) behind the table cell (8th)
Notebook1_Reordered ==
    <<Nb1Cell_01, Nb1Cell_02, Nb1Cell_03, Nb1Cell_04, Nb1Cell_05, Nb1Cell_06,
      Nb1Cell_08, Nb1Cell_07, Nb1Cell_09, Nb1Cell_10, Nb1Cell_11, Nb1Cell_12,
      Nb1Cell_13, Nb1Cell_14, Nb1Cell_15, Nb1Cell_16, Nb1Cell_17, Nb1Cell_18,
      Nb1Cell_19, Nb1Cell_20>>

Notebook1 ==
    <<Nb1Cell_01, Nb1Cell_02, Nb1Cell_03, Nb1Cell_04, Nb1Cell_05,
      Nb1Cell_06, Nb1Cell_07, Nb1Cell_08, Nb1Cell_09, Nb1Cell_10,
      Nb1Cell_11, Nb1Cell_12, Nb1Cell_13, Nb1Cell_14, Nb1Cell_15,
      Nb1Cell_16, Nb1Cell_17, Nb1Cell_18, Nb1Cell_19, Nb1Cell_20>>

\* second notebook (lines 312-582), code cells in document order
\* lines 320-324
Nb2Cell_01 ==
    <<St({}, {"Tuple", "List"}, {}, TRUE),
      St({}, {"pd"}, {}, TRUE),
      St({}, {"px"}, {}, TRUE),
      St({}, {"go"}, {}, TRUE)>>
\* line 333
Nb2Cell_02 ==
    <<St({}, {"FIXED_SCENARIO_RETURN"}, {}, FALSE)>>
\* lines 349-354; the annotations are evaluated by the def
Nb2Cell_03 ==
    <<St({"pd", "float", "str", "List"}, {"get_avg_return_scenario"}, {}, FALSE)>>
\* lines 363-371
Nb2Cell_04 ==
    <<St({"str", "Tuple", "pd", "float"}, {"load_data"}, {}, FALSE)>>
\* lines 380-381
Nb2Cell_05 ==
    <<St({"load_data"}, {"data", "avg_return"}, {"load_data"}, TRUE),
      St({"data"}, {}, {}, TRUE)>>
\* lines 399-410
Nb2Cell_06 ==
    <<St({"go"}, {"fig"}, {}, TRUE),
      St({"data"}, {"delta_depot_value"}, {}, TRUE),
      St({"fig", "go", "data"}, {}, {}, TRUE),
      St({"fig", "go", "data", "delta_depot_value"}, {}, {}, TRUE),
      St({"fig", "go", "data", "round", "avg_return"}, {}, {}, TRUE),
      St({"fig", "go", "data", "round", "FIXED_SCENARIO_RETURN"}, {}, {}, TRUE),
      St({"fig", "go", "data"}, {}, {}, TRUE),
      St({"fig", "go", "data"}, {}, {}, TRUE),
      St({}, {}, {}, FALSE)>>
\* line 419
Nb2Cell_07 ==
    <<St({"fig"}, {}, {}, TRUE)>>
\* lines 437-440
Nb2Cell_08 ==
    <<St({"px", "data"}, {"fig"}, {}, TRUE),
      St({"fig", "go", "data"}, {}, {}, TRUE),
      St({"fig"}, {}, {}, TRUE)>>
\* lines 456-459
Nb2Cell_09 ==
    <<St({}, {"labels"}, {}, FALSE),
      St({"data"}, {"values"}, {}, TRUE),
      St({"go", "labels", "values"}, {"fig"}, {}, TRUE),
      St({"fig"}, {}, {}, TRUE)>>
\* lines 475-478
Nb2Cell_10 ==
    <<St({"delta_depot_value"}, {"delta_depot_value"}, {}, TRUE),
      St({"delta_depot_value"}, {"stddev"}, {}, TRUE),
      St({"delta_depot_value"}, {"median"}, {}, TRUE),
      St({"delta_depot_value"}, {"max_count"}, {}, TRUE)>>
\* lines 487-490
Nb2Cell_11 ==
    <<St({"float"}, {"calculate_share_of_values_being_within_stddev"}, {}, FALSE)>>
\* lines 499-512; the for loop of lines 503-511 runs for k = 1, 2
Nb2Cell_12 ==
    <<St({"sorted", "delta_depot_value"}, {"depot_value_fluctuations"}, {}, TRUE),
      St({"px", "depot_value_fluctuations"}, {"fig"}, {}, TRUE),
      St({}, {"colors"}, {}, FALSE),
      St({"fig", "median", "colors"}, {}, {}, TRUE),
      St({"range"}, {"k"}, {}, FALSE),
      St({"fig", "median", "k", "stddev", "colors"}, {}, {}, TRUE),
      St({"fig", "median", "k", "stddev", "round", "calculate_share_of_values_being_within_stddev"}, {}, {"calculate_share_of_values_being_within_stddev"}, TRUE),
      St({"fig", "median", "k", "stddev", "colors"}, {}, {}, TRUE),
      St({"fig", "median", "k", "stddev", "round", "calculate_share_of_values_being_within_stddev"}, {}, {"calculate_share_of_values_being_within_stddev"}, TRUE),
      St({"range"}, {"k"}, {}, FALSE),
      St({"fig", "median", "k", "stddev", "colors"}, {}, {}, TRUE),
      St({"fig", "median", "k", "stddev", "round", "calculate_share_of_values_being_within_stddev"}, {}, {"calculate_share_of_values_being_within_stddev"}, TRUE),
      St({"fig", "median", "k", "stddev", "colors"}, {}, {}, TRUE),
      St({"fig", "median", "k", "stddev", "round", "calculate_share_of_values_being_within_stddev"}, {}, {"calculate_share_of_values_being_within_stddev"}, TRUE),
      St({"fig"}, {}, {}, TRUE)>>
\* lines 528-550
Nb2Cell_13 ==
    <<St({"data"}, {"sizes"}, {}, TRUE),
      St({"sizes"}, {"sizes_normalized"}, {}, TRUE),
      St({"go", "data", "dict", "sizes_normalized"}, {"bubble_chart"}, {}, TRUE),
      St({"go", "bubble_chart"}, {"fig"}, {}, TRUE),
      St({"fig"}, {}, {}, TRUE),
      St({"fig"}, {}, {}, TRUE)>>
\* line 558, empty
Nb2Cell_14 ==
    <<>>

Notebook2 ==
    <<Nb2Cell_01, Nb2Cell_02, Nb2Cell_03, Nb2Cell_04, Nb2Cell_05,
      Nb2Cell_06, Nb2Cell_07, Nb2Cell_08, Nb2Cell_09, Nb2Cell_10,
      Nb2Cell_11, Nb2Cell_12, Nb2Cell_13, Nb2Cell_14>>

Notebooks == <<Notebook1, Notebook2>>

CurrentCell == Notebooks[nb][cell]
CurrentStmt == CurrentCell[stmt]

\* Run All on a fresh kernel, first cell, first statement
InitNb ==
    /\ nb \in 1..Len(Notebooks)
    /\ cell = 1
    /\ stmt = 1
    /\ ns = Builtins
    /\ run = "running"

AtStatement ==
    /\ run = "running"
    /\ cell <= Len(Notebooks[nb])
    /\ stmt <= Len(CurrentCell)

\* the statement runs: NameError when a name it looks up is unbound,
\* otherwise its targets are bound
ExecStatement ==
    /\ AtStatement
    /\ IF Needed(CurrentStmt) \subseteq ns
         THEN /\ ns' = ns \cup CurrentStmt.defs
              /\ stmt' = stmt + 1
              /\ run' = "running"
         ELSE /\ run' = "nameError"
              /\ UNCHANGED <<ns, stmt>>
    /\ UNCHANGED <<nb, cell>>

\* the statement raises something else (file missing, KeyError, ...):
\* Run All stops at the failing cell
StatementRaises ==
    /\ AtStatement
    /\ CurrentStmt.mayFail
    /\ Needed(CurrentStmt) \subseteq ns
    /\ run' = "raised"
    /\ UNCHANGED <<nb, cell, stmt, ns>>

\* the cell is through: on to the next one, or the run is finished
CellDone ==
    /\ run = "running"
    /\ cell <= Len(Notebooks[nb])
    /\ stmt > Len(CurrentCell)
    /\ cell' = cell + 1
    /\ stmt' = 1
    /\ run' = IF cell = Len(Notebooks[nb]) THEN "finished" ELSE "running"
    /\ UNCHANGED <<nb, ns>>

NextNb ==
    (ExecStatement \/ StatementRaises \/ CellDone)
    /\ UNCHANGED viewVars /\ UNCHANGED argVars

InitNbSpec == InitView /\ InitArgIdle /\ InitNb

SpecNb == InitNbSpec /\ [][NextNb]_vars

(***************************************************************************)
(* Properties                                                              *)
(***************************************************************************)
SimulateTasks == {t \in Tasks : tasks[t].kind = "simulate"}

IsPrefix(p, q) == Len(p) <= Len(q) /\ \A i \in 1..Len(p) : p[i] = q[i]

LastOf(q) == q[Len(q)]

StatusOrder == <<"Simulating", "Retrieving results", "Done">>

\* C1, as claimed: a run of simulate() whose results request came back not-ok
\* has not returned without a further results request (it polls).
C1_Polls ==
    \A t \in SimulateTasks :
        (tasks[t].resResp.st = "notok" /\ tasks[t].pc = "returned")
            => tasks[t].resCount >= 2

\* C1, amended: a run of simulate() that received its identifier requests the
\* results exactly once; after a not-ok results response it shows the alert and
\* returns with no further request, the status it wrote last being
\* "Retrieving results"; it writes "Done" only after an ok results response.
C1_RequestsOnce ==
    \A t \in SimulateTasks :
        /\ tasks[t].resCount <= 1
        /\ (tasks[t].simResp.st = "ok" /\ tasks[t].pc # "awaitSimulateJson")
               => tasks[t].resCount = 1
        /\ (tasks[t].resResp.st = "notok" /\ tasks[t].pc = "returned")
               => /\ tasks[t].alerted = <<"Error: " \o tasks[t].resResp.text>>
                  /\ LastOf(tasks[t].trace) = "Retrieving results"
        /\ (\E i \in 1..Len(tasks[t].trace) : tasks[t].trace[i] = "Done")
               => tasks[t].resResp.st = "ok"

C1_Witness ==
    \E t \in SimulateTasks :
        /\ tasks[t].resResp.st = "notok"
        /\ tasks[t].pc = "returned"
        /\ tasks[t].resCount = 1

\* C2: a run of simulate() issues its results request only after the simulate
\* request returned ok, and with the identifier of that response; before or
\* without an ok simulate response it has issued none.
C2_RequestAfterOkResponse ==
    \A t \in SimulateTasks :
        /\ tasks[t].resCount > 0
               => /\ tasks[t].simResp.st = "ok"
                  /\ tasks[t].identifier = tasks[t].simResp.identifier
                  /\ tasks[t].identifier \in Ids
        /\ tasks[t].pc \in {"awaitSimulate", "awaitSimulateText",
                            "awaitSimulateJson"}
               => tasks[t].resCount = 0
        /\ tasks[t].simResp.st # "ok" => tasks[t].resCount = 0

C2_Witness ==
    \E t \in SimulateTasks :
        /\ tasks[t].pc = "awaitResults"
        /\ tasks[t].resCount = 1
        /\ tasks[t].identifier = "id2"

\* C3: in a top-to-bottom run of either notebook no statement looks up a name
\* that no earlier statement has bound: the run never stops with a NameError.
C3_NoNameError ==
    /\ run # "nameError"
    /\ AtStatement => Needed(CurrentStmt) \subseteq ns

C3_Witness ==
    /\ run = "finished"
    /\ nb = 2
    /\ {"median", "stddev", "delta_depot_value", "go", "px"} \subseteq ns

\* C4, as claimed: after setValue(v) the value is null when v is undefined and
\* v otherwise, and no other field has changed.
C4_SetValueNormalises ==
    [][lastSet' # <<>> =>
          /\ arg'.value = (IF lastSet' = JSUndefined THEN JSNull ELSE lastSet')
          /\ arg'.key = arg.key
          /\ arg'.display_name = arg.display_name
          /\ arg'.type = arg.type
          /\ arg'.default_value = arg.default_value]_vars

\* C5: the status shows "Done" only when some invocation got an ok results
\* response and drew both plots from it; a run of simulate() writes
\* "Simulating", "Retrieving results", "Done" in this order, and while no
\* other invocation has run in between, the status shown is the one it wrote.
C5_StatusOrder ==
    /\ status = "Done" =>
          \E t \in Tasks :
              /\ tasks[t].pc = "returned"
              /\ tasks[t].resResp.st = "ok"
              /\ tasks[t].resResp.hasData
              /\ tasks[t].drew
              /\ linePlot = tasks[t].resResp.line
              /\ tablePlot = tasks[t].resResp.table
    /\ \A t \in Tasks :
          (\E i \in 1..Len(tasks[t].trace) : tasks[t].trace[i] = "Done")
              => /\ tasks[t].resResp.st = "ok"
                 /\ tasks[t].drew
    /\ \A t \in SimulateTasks :
          /\ tasks[t].trace # <<>>
          /\ IsPrefix(tasks[t].trace, StatusOrder)
          /\ tasks[t].alone => status = LastOf(tasks[t].trace)

C5_Witness ==
    /\ status = "Done"
    /\ linePlot = "L2"
    /\ tablePlot = "T2"
    /\ \E t \in SimulateTasks :
          /\ tasks[t].alone
          /\ tasks[t].trace = StatusOrder

\* C6: a run of simulate() that got a not-ok simulate response has shown the
\* alert with the response text and returned, has issued no results request
\* and drawn no plot; the step that does so leaves status, identifier and
\* plots as they are, and while no other invocation has run in between they
\* still read "Simulating" and "pending".
C6_NotOkState ==
    \A t \in SimulateTasks :
        (tasks[t].simResp.st = "notok" /\ tasks[t].pc = "returned")
            => /\ tasks[t].alerted = <<"Error: " \o tasks[t].simResp.text>>
               /\ \E i \in 1..Len(alerts) :
                      alerts[i] = "Error: " \o tasks[t].simResp.text
               /\ tasks[t].resCount = 0
               /\ tasks[t].resResp.st = "none"
               /\ ~tasks[t].drew
               /\ tasks[t].trace = <<"Simulating">>
               /\ tasks[t].alone => (status = "Simulating" /\ simId = "pending")

C6_NotOkStep ==
    \A t \in Tasks :
        (/\ tasks[t].kind = "simulate"
         /\ tasks[t].simResp.st = "notok"
         /\ tasks[t].pc # "returned"
         /\ tasks'[t].pc = "returned")
            => /\ UNCHANGED <<status, simId, linePlot, tablePlot>>
               /\ alerts' = Append(alerts, "Error: " \o tasks[t].simResp.text)

C6_SimulateNotOk == []C6_NotOkState /\ [][C6_NotOkStep]_vars

C6_Witness ==
    /\ tasks[1].drew
    /\ linePlot = "L1"
    /\ \E t \in SimulateTasks :
          /\ tasks[t].simResp.st = "notok"
          /\ tasks[t].pc = "returned"
          /\ tasks[t].alone
          /\ status = "Simulating"
          /\ simId = "pending"

=============================================================================
